---- MODULE Spec2Model ----
(***************************************************************************)
(* UUID.js (LiosK, 3.0 beta): the UUID value type, the version 4 and       *)
(* version 1 generators and the parser of src/src/uuid.js.                 *)
(*                                                                         *)
(* JavaScript numbers are IEEE doubles; every integer the program handles  *)
(* is below 2^53 and exact, except the product in _getTimeFieldValues,     *)
(* whose rounding is modelled.  Such integers exceed the range of a model  *)
(* integer, so a number is five limbs of 16 bits, the least significant    *)
(* first.  A string is a sequence of one-character strings.                *)
(***************************************************************************)
EXTENDS Integers, Sequences, FiniteSets

VARIABLES
  st,      \* UUID._state: timestamp, sequence, node, tick
  ret,     \* what the last operation returned: a UUID object or Null
  op,      \* the last operation: "load", "genV1", "genV4", "parse", "init"
  arg,     \* its input: the clock reading, the string, the arguments
  prev,    \* UUID._state as the last genV1 call found it, and the UUID of the call before
  last1,   \* the UUID the last genV1 call returned
  first,   \* the UUID the first genV1 call returned
  calls,   \* operations so far, where a specification counts them
  spent    \* genV1 calls so far that did not advance tick, where one counts them

vars == <<st, ret, op, arg, prev, last1, first, calls, spent>>

Null == [null |-> TRUE]

\* ------------------------------------------------------------ numbers

\* the base of a limb, and the limbs of a number: all numbers are below Base^5
Base == 2^16

Limbs == 1..5

Zero == <<0, 0, 0, 0, 0>>

Tup(f) == <<f[1], f[2], f[3], f[4], f[5]>>

\* a small integer (below 2^31) as a number, and back
BigOf(n) == <<n % Base, n \div Base, 0, 0, 0>>

BigToNat(x) == x[1] + Base * x[2]

\* a + b
BigAdd(a, b) ==
  LET s1 == a[1] + b[1]
      s2 == a[2] + b[2] + s1 \div Base
      s3 == a[3] + b[3] + s2 \div Base
      s4 == a[4] + b[4] + s3 \div Base
      s5 == a[5] + b[5] + s4 \div Base
  IN <<s1 % Base, s2 % Base, s3 % Base, s4 % Base, s5 % Base>>

\* a * k, for k up to 2^14
BigMulSmall(a, k) ==
  LET s1 == a[1] * k
      s2 == a[2] * k + s1 \div Base
      s3 == a[3] * k + s2 \div Base
      s4 == a[4] * k + s3 \div Base
      s5 == a[5] * k + s4 \div Base
  IN <<s1 % Base, s2 % Base, s3 % Base, s4 % Base, s5 % Base>>

\* <<a div k, a mod k>>, for k up to 2^14
BigDivSmall(a, k) ==
  LET c5 == a[5]
      c4 == (c5 % k) * Base + a[4]
      c3 == (c4 % k) * Base + a[3]
      c2 == (c3 % k) * Base + a[2]
      c1 == (c2 % k) * Base + a[1]
  IN <<<<c1 \div k, c2 \div k, c3 \div k, c4 \div k, c5 \div k>>, c1 % k>>

\* a < b
BigLess(a, b) ==
  LET diff == {i \in Limbs : a[i] # b[i]}
  IN diff # {} /\ (LET top == CHOOSE i \in diff : \A k \in diff : k <= i
                   IN a[top] < b[top])

\* a mod 2^n: what x & (2^n - 1) keeps
LowBits(a, n) ==
  Tup([i \in Limbs |-> IF 16 * i <= n THEN a[i]
                       ELSE IF 16 * (i - 1) >= n THEN 0
                       ELSE a[i] % 2^(n - 16 * (i - 1))])

\* a div Base^n and a * Base^n
DropLimbs(a, n) == Tup([i \in Limbs |-> IF i + n <= 5 THEN a[i + n] ELSE 0])

ShiftLimbs(a, n) == Tup([i \in Limbs |-> IF i > n THEN a[i - n] ELSE 0])

\* bit j of x, bit 0 the least significant
Bit(x, j) == (x[(j \div 16) + 1] \div 2^(j % 16)) % 2

\* the number of binary digits of x
BitLength(x) ==
  LET used == {i \in Limbs : x[i] # 0}
      top  == CHOOSE i \in used : \A k \in used : k <= i
      bits == {j \in 1..16 : x[top] >= 2^(j - 1)}
  IN IF used = {} THEN 0 ELSE 16 * (top - 1) + Cardinality(bits)

\* bitwise operators on small non-negative integers
RECURSIVE BitAnd(_, _)
BitAnd(a, b) ==
  IF a = 0 \/ b = 0 THEN 0
  ELSE (a % 2) * (b % 2) + 2 * BitAnd(a \div 2, b \div 2)

RECURSIVE BitOr(_, _)
BitOr(a, b) ==
  IF a = 0 THEN b
  ELSE IF b = 0 THEN a
  ELSE (IF a % 2 = 1 \/ b % 2 = 1 THEN 1 ELSE 0) + 2 * BitOr(a \div 2, b \div 2)

\* ------------------------------------------------------------ field codec

DigitChars == <<"0", "1", "2", "3", "4", "5", "6", "7", "8", "9",
                "a", "b", "c", "d", "e", "f">>

UpperChars == <<"0", "1", "2", "3", "4", "5", "6", "7", "8", "9",
                "A", "B", "C", "D", "E", "F">>

\* the digits of num in the radix, most significant first, by repeated division
RECURSIVE DigitsOf(_, _)
DigitsOf(num, radix) ==
  IF num = Zero THEN <<>>
  ELSE LET qr == BigDivSmall(num, radix)
       IN DigitsOf(qr[1], radix) \o <<DigitChars[qr[2] + 1]>>

\* Number.prototype.toString(radix) of a non-negative integer: no leading zeros,
\* "0" for zero; radix 2 and 16 read the digits off the binary representation
ToStringRadix(num, radix) ==
  IF num = Zero THEN <<"0">>
  ELSE IF radix = 2
  THEN LET n == BitLength(num)
       IN [i \in 1..n |-> DigitChars[Bit(num, n - i) + 1]]
  ELSE IF radix = 16
  THEN LET n == (BitLength(num) + 3) \div 4
       IN [i \in 1..n |->
            DigitChars[((num[((n - i) \div 4) + 1] \div 16^((n - i) % 4)) % 16) + 1]]
  ELSE DigitsOf(num, radix)

\* the value of one character as a digit of the radix, -1 when it is none
CharValue(c, radix) ==
  LET hit == {v \in 0..(radix - 1) : DigitChars[v + 1] = c \/ UpperChars[v + 1] = c}
  IN IF hit = {} THEN -1 ELSE CHOOSE v \in hit : TRUE

\* the length of the longest prefix of str made of digits of the radix
DigitPrefix(str, radix) ==
  LET bad == {i \in 1..Len(str) : CharValue(str[i], radix) < 0}
  IN IF bad = {} THEN Len(str) ELSE (CHOOSE i \in bad : \A k \in bad : i <= k) - 1

\* the value of the first n characters of str, digit by digit
RECURSIVE ParseFrom(_, _, _)
ParseFrom(str, radix, n) ==
  IF n = 0 THEN Zero
  ELSE BigAdd(BigMulSmall(ParseFrom(str, radix, n - 1), radix),
              BigOf(CharValue(str[n], radix)))

\* parseInt(str, radix) of a string that starts with a digit of the radix; with
\* radix 16 the digits are the binary representation, four bits each
ParseInt(str, radix) ==
  LET n == DigitPrefix(str, radix)
      hex(j) == IF j < n THEN CharValue(str[n - j], 16) ELSE 0
  IN IF radix = 16
     THEN Tup([i \in Limbs |-> hex(4 * i - 4) + 16 * hex(4 * i - 3)
                               + 256 * hex(4 * i - 2) + 4096 * hex(4 * i - 1)])
     ELSE ParseFrom(str, radix, n)

\* the loop of the function UUID._getIntAligner returns: i = length - hex.length
RECURSIVE PadLoop(_, _, _)
PadLoop(hex, i, z) ==
  IF i > 0
  THEN PadLoop(IF i % 2 = 1 THEN z \o hex ELSE hex, i \div 2, z \o z)
  ELSE hex

GetIntAligner(radix, num, length) ==
  LET hex == ToStringRadix(num, radix)
  IN PadLoop(hex, length - Len(hex), <<"0">>)

\* ------------------------------------------------------------ UUID object

FIELD_NAMES == <<"timeLow", "timeMid", "timeHiAndVersion",
                 "clockSeqHiAndReserved", "clockSeqLow", "node">>

sizes == <<32, 16, 16, 8, 8, 48>>

\* a field by its name: the arrays hold each value under its index and its name
FieldIndex(name) == CHOOSE i \in 1..Len(FIELD_NAMES) : FIELD_NAMES[i] = name

\* parseInt(arguments[i] || 0): a missing argument counts as 0, a number is
\* written in decimal and read back
IntValue(args, i) ==
  LET a == IF i <= Len(args) THEN args[i] ELSE Zero
  IN ParseInt(ToStringRadix(a, 10), 10)

\* (x >> 12) & 0xF: x is taken modulo 2^32, shifted, and its low four bits kept
Version(thav) == BigToNat(LowBits(BigDivSmall(LowBits(thav, 32), 4096)[1], 4))

UUIDInit(args) ==
  LET intFields == [i \in 1..Len(sizes) |-> IntValue(args, i)]
      bitFields == [i \in 1..Len(sizes) |-> GetIntAligner(2, intFields[i], sizes[i])]
      hexFields == [i \in 1..Len(sizes) |-> GetIntAligner(16, intFields[i], sizes[i] \div 4)]
  IN [intFields |-> intFields,
      bitFields |-> bitFields,
      hexFields |-> hexFields,
      version   |-> Version(intFields[FieldIndex("timeHiAndVersion")]),
      bitString |-> bitFields[1] \o bitFields[2] \o bitFields[3]
                    \o bitFields[4] \o bitFields[5] \o bitFields[6],
      hexString |-> hexFields[1] \o <<"-">> \o hexFields[2] \o <<"-">> \o hexFields[3]
                    \o <<"-">> \o hexFields[4] \o hexFields[5] \o <<"-">> \o hexFields[6]]

ToString(u) == u.hexString

Equals(u, v) ==
  IF v = Null THEN FALSE
  ELSE \A i \in 1..Len(u.intFields) : u.intFields[i] = v.intFields[i]

\* ------------------------------------------------------------ parser

\* /^([0-9a-f]{8})-([0-9a-f]{4})-([0-9a-f]{4})-([0-9a-f]{2})([0-9a-f]{2})-([0-9a-f]{12})$/i
\* as its pieces in order: a number n is a group of n hex digits, 0 a hyphen
Pattern == <<8, 0, 4, 0, 4, 0, 2, 2, 0, 12>>

IsHexChar(c) == CharValue(c, 16) >= 0

\* the groups captured matching pieces k.. of the pattern at position pos, or Null
RECURSIVE MatchAt(_, _, _, _)
MatchAt(str, pos, k, groups) ==
  IF k > Len(Pattern)
  THEN (IF pos = Len(str) + 1 THEN groups ELSE Null)
  ELSE IF Pattern[k] = 0
  THEN (IF pos <= Len(str) /\ str[pos] = "-"
        THEN MatchAt(str, pos + 1, k + 1, groups)
        ELSE Null)
  ELSE LET n == Pattern[k]
       IN IF pos + n - 1 <= Len(str)
             /\ \A j \in pos..(pos + n - 1) : IsHexChar(str[j])
          THEN MatchAt(str, pos + n, k + 1,
                       Append(groups, SubSeq(str, pos, pos + n - 1)))
          ELSE Null

\* the pattern without its closing $: whatever follows a match is ignored
RegexExecOpenEnd(str) ==
  IF Len(str) >= 36 THEN MatchAt(SubSeq(str, 1, 36), 1, 1, <<>>) ELSE Null

RegexExec(str) == MatchAt(str, 1, 1, <<>>)

\* the two halves of the fourth group taken in the wrong order
UUIDParseSwapped(strId) ==
  LET r == RegexExec(strId)
  IN IF r # Null
     THEN UUIDInit(<<ParseInt(r[1], 16), ParseInt(r[2], 16), ParseInt(r[3], 16),
                     ParseInt(r[5], 16), ParseInt(r[4], 16), ParseInt(r[6], 16)>>)
     ELSE Null

UUIDParse(strId) ==
  LET r == RegexExec(strId)
  IN IF r # Null
     THEN UUIDInit(<<ParseInt(r[1], 16), ParseInt(r[2], 16), ParseInt(r[3], 16),
                     ParseInt(r[4], 16), ParseInt(r[5], 16), ParseInt(r[6], 16)>>)
     ELSE Null

\* ------------------------------------------------------------ random source

\* a number written in decimal, most significant digit first
RECURSIVE Num(_)
Num(ds) ==
  IF ds = <<>> THEN Zero
  ELSE BigAdd(BigMulSmall(Num(SubSeq(ds, 1, Len(ds) - 1)), 10), BigOf(ds[Len(ds)]))

\* Math.random() returns a real of [0, 1); the points of it the model draws:
\* 0, one third, and the largest value below 1
Draws == {"zero", "third", "top"}

\* 0 | d * n, for n = 1 << x
Scale(d, n) ==
  CASE d = "zero"  -> 0
    [] d = "third" -> n \div 3
    [] d = "top"   -> n - 1

NaN == [nan |-> TRUE]

\* UUID._getRandomInt(x), the draws listed in ds (two are used when x > 30)
GetRandomInt(x, ds) ==
  IF x < 0 THEN NaN
  ELSE IF x <= 30 THEN BigOf(Scale(ds[1], 2^x))
  ELSE IF x <= 53
  THEN BigAdd(BigOf(Scale(ds[1], 2^30)),
              BigMulSmall(BigMulSmall(BigMulSmall(BigOf(Scale(ds[2], 2^(x - 30))), 16384), 16384), 4))
  ELSE NaN

\* Math.random() < UUID._tsRatio, with _tsRatio = 1 / 8
LessThanTsRatio(d) == d = "zero"

\* x | y on a number x below 2^28 and a small y
BigOr(x, y) == BigOf(BitOr(BigToNat(x), y))

\* ------------------------------------------------------------ version 4

\* the eight draws of one genV4 call, in the order the arguments are evaluated
GenV4Of(ds) ==
  UUIDInit(<<GetRandomInt(32, <<ds[1], ds[2]>>),
             GetRandomInt(16, <<ds[3]>>),
             BigOr(GetRandomInt(12, <<ds[4]>>), 16384),
             BigOr(GetRandomInt(6, <<ds[5]>>), 128),
             GetRandomInt(8, <<ds[6]>>),
             GetRandomInt(48, <<ds[7], ds[8]>>)>>)

\* ------------------------------------------------------------ version 1

\* -Date.UTC(1582, 9, 15): milliseconds from 1582-10-15 to 1970-01-01
GregorianOffset == Num(<<1, 2, 2, 1, 9, 2, 9, 2, 8, 0, 0, 0, 0, 0>>)

\* x as a double holds it: rounded to 53 significant bits, ties to even
RoundDouble(x) ==
  LET e == BitLength(x) - 53
  IN IF e <= 0 THEN x
     ELSE LET qr   == BigDivSmall(x, 2^e)
              half == 2^(e - 1)
              odd  == qr[1][1] % 2 = 1
              up   == qr[2] > half \/ (qr[2] = half /\ odd)
              q    == IF up THEN BigAdd(qr[1], BigOf(1)) ELSE qr[1]
          IN BigMulSmall(q, 2^e)

\* UUID._getTimeFieldValues(time)
GetTimeFieldValues(time) ==
  LET ts == BigAdd(time, GregorianOffset)
      \* (ts / 0x100000000) * 10000: the quotient is exact, the product is rounded;
      \* & 0xFFFFFFF keeps the low 28 bits of its integer part
      hm == LowBits(DropLimbs(RoundDouble(BigMulSmall(ts, 10000)), 2), 28)
  IN [low |-> LowBits(BigMulSmall(LowBits(ts, 28), 10000), 32),
      mid |-> LowBits(hm, 16),
      hi  |-> DropLimbs(hm, 1),
      timestamp |-> ts]

\* UUID._state as the script builds it when loaded, from four draws
StateOf(ds) ==
  [timestamp |-> Zero,
   sequence  |-> BigToNat(GetRandomInt(14, <<ds[1]>>)),
   node      |-> BigAdd(BigMulSmall(ShiftLimbs(BigOr(GetRandomInt(8, <<ds[2]>>), 1), 2), 256),
                        GetRandomInt(40, <<ds[3], ds[4]>>)),
   tick      |-> 0]

\* a clock that moved backward goes unnoticed
AdvanceNoRegress(s, now, d) ==
  IF now # s.timestamp
  THEN [s EXCEPT !.timestamp = now, !.tick = 0]
  ELSE IF LessThanTsRatio(d) /\ s.tick < 9999
  THEN [s EXCEPT !.tick = @ + 1]
  ELSE [s EXCEPT !.sequence = @ + 1]

\* tick allowed one step beyond its limit
AdvanceOverTick(s, now, d) ==
  IF now # s.timestamp
  THEN [s EXCEPT !.sequence = IF BigLess(now, s.timestamp) THEN @ + 1 ELSE @,
                 !.timestamp = now,
                 !.tick = 0]
  ELSE IF LessThanTsRatio(d) /\ s.tick <= 9999
  THEN [s EXCEPT !.tick = @ + 1]
  ELSE [s EXCEPT !.sequence = @ + 1]

\* genV1, lines 187-198: the state after the call reads the clock as now and draws d
Advance(s, now, d) ==
  IF now # s.timestamp
  THEN [s EXCEPT !.sequence = IF BigLess(now, s.timestamp) THEN @ + 1 ELSE @,
                 !.timestamp = now,
                 !.tick = 0]
  ELSE IF LessThanTsRatio(d) /\ s.tick < 9999
  THEN [s EXCEPT !.tick = @ + 1]
  ELSE [s EXCEPT !.sequence = @ + 1]

\* st.sequence &= 0x3FFF
MaskSequence(seq) == BitAnd(seq, 16383)

\* the version bits left out
TimeHiNoVersion(hi) == BigOf(BitAnd(BigToNat(hi), 4095))

\* (tf.hi & 0xFFF) | 0x1000
TimeHiAndVersion(hi) == BigOf(BitOr(BitAnd(BigToNat(hi), 4095), 4096))

\* (st.sequence >>> 8) | 0x80
ClockSeqHiAndReserved(seq) == BigOf(BitOr(seq \div 256, 128))

\* st.sequence & 0xFF
ClockSeqLow(seq) == BigOf(BitAnd(seq, 255))

\* tf.low + st.tick
TimeLow(low, tick) == BigAdd(low, BigOf(tick))

\* genV1, lines 200-210: the UUID built from the state s the call leaves
FormatV1(s) ==
  LET tf == GetTimeFieldValues(s.timestamp)
  IN UUIDInit(<<TimeLow(tf.low, s.tick), tf.mid, TimeHiAndVersion(tf.hi),
                ClockSeqHiAndReserved(s.sequence), ClockSeqLow(s.sequence), s.node>>)

\* ------------------------------------------------------------ operations

\* UUID.genV1() when the clock reads now and Math.random() returns d
GenV1(now, d) ==
  LET s1 == Advance(st, now, d)
      s2 == [s1 EXCEPT !.sequence = MaskSequence(@)]
      u  == FormatV1(s2)
  IN /\ st' = s2
     /\ ret' = u
     /\ op' = "genV1"
     /\ arg' = now
     /\ prev' = [st |-> st, uuid |-> last1]
     /\ last1' = u
     /\ first' = IF first = Null THEN u ELSE first

\* UUID.genV4() when Math.random() returns ds, one after the other
GenV4(ds) ==
  /\ ret' = GenV4Of(ds)
  /\ op' = "genV4"
  /\ arg' = ds
  /\ UNCHANGED <<st, prev, last1, first>>

\* UUID.parse(strId)
Parse(strId) ==
  /\ ret' = UUIDParse(strId)
  /\ op' = "parse"
  /\ arg' = strId
  /\ UNCHANGED <<st, prev, last1, first>>

\* new UUID()._init(args...)
Construct(args) ==
  /\ ret' = UUIDInit(args)
  /\ op' = "init"
  /\ arg' = args
  /\ UNCHANGED <<st, prev, last1, first>>

\* ------------------------------------------------------------ inputs

MaxCalls == 3

MaxSpent == 2

\* 2026-11-02T22:37:35.471Z, whose low time group is 0xfffffff0; the millisecond
\* after it; 2039-06-21T16:15:07.631Z, whose 100 ns count needs more than 53 bits
ClockLowTop == Num(<<1, 7, 9, 3, 6, 5, 9, 0, 5, 5, 4, 7, 1>>)

ClockNext == BigAdd(ClockLowTop, BigOf(1))

Clock2039 == Num(<<2, 1, 9, 2, 2, 8, 5, 7, 0, 7, 6, 3, 1>>)

Clocks == {ClockLowTop, ClockNext, Clock2039}

BurstClocks == {ClockLowTop}

BurstDraws == {"zero", "top"}

WrapClocks == {ClockLowTop}

WrapDraws == {"top"}

\* the draws of the script's load: sequence, node (three draws)
LoadDraws == {<<"zero", "zero", "zero", "zero">>,
              <<"top", "top", "top", "top">>,
              <<"third", "third", "top", "third">>}

V4Draws == {[i \in 1..8 |-> "zero"], [i \in 1..8 |-> "top"],
            <<"third", "top", "zero", "third", "top", "zero", "third", "top">>}

AllV4Draws == [1..8 -> Draws]

SpecExample ==
  <<"1", "2", "3", "4", "5", "6", "7", "8", "-",
  "1", "2", "3", "4", "-",
  "5", "6", "7", "8", "-",
  "9", "a", "b", "c", "-",
  "1", "2", "3", "4", "5", "6", "7", "8", "9", "0", "1", "2">>

MixedCase ==
  <<"A", "B", "C", "D", "E", "F", "0", "1", "-",
  "2", "3", "4", "5", "-",
  "6", "7", "8", "9", "-",
  "a", "b", "C", "D", "-",
  "E", "F", "f", "e", "d", "c", "b", "a", "9", "8", "7", "6">>

AllZero ==
  <<"0", "0", "0", "0", "0", "0", "0", "0", "-",
  "0", "0", "0", "0", "-",
  "0", "0", "0", "0", "-",
  "0", "0", "0", "0", "-",
  "0", "0", "0", "0", "0", "0", "0", "0", "0", "0", "0", "0">>

AllF ==
  <<"f", "f", "f", "f", "f", "f", "f", "f", "-",
  "f", "f", "f", "f", "-",
  "f", "f", "f", "f", "-",
  "f", "f", "f", "f", "-",
  "f", "f", "f", "f", "f", "f", "f", "f", "f", "f", "f", "f">>

Bases == {SpecExample, MixedCase, AllZero, AllF}

NotAUuid == <<"n", "o", "t", "-", "a", "-", "u", "u", "i", "d">>

MutChars == {"-", "g", "G", "0", "F", " "}

Delete(s, i) == SubSeq(s, 1, i - 1) \o SubSeq(s, i + 1, Len(s))

Insert(s, i, c) == SubSeq(s, 1, i - 1) \o <<c>> \o SubSeq(s, i, Len(s))

Replace(s, i, c) == [s EXCEPT ![i] = c]

ParseInputs ==
  Bases \cup {<<>>, NotAUuid}
    \cup {Delete(b, i) : b \in Bases, i \in 1..36}
    \cup {Insert(b, i, c) : b \in Bases, i \in 1..37, c \in MutChars}
    \cup {Replace(b, i, c) : b \in Bases, i \in 1..36, c \in MutChars}

\* per field: zero, the largest value of its width, and the first value beyond it
ArgChoices(i) == {Zero, ParseInt([k \in 1..(sizes[i] \div 4) |-> "f"], 16),
                  ParseInt(<<"1">> \o [k \in 1..(sizes[i] \div 4) |-> "0"], 16)}

\* all six arguments, or only the first k of them
ArgVectors ==
  {<<a, b, c, d, e, f>> : a \in ArgChoices(1), b \in ArgChoices(2), c \in ArgChoices(3),
                          d \in ArgChoices(4), e \in ArgChoices(5), f \in ArgChoices(6)}
    \cup {<<>>, <<ShiftLimbs(BigOf(1), 2)>>, <<BigOf(1), BigOf(2), BigOf(3)>>}

\* ------------------------------------------------------------ specifications

LoadStates == {StateOf(ds) : ds \in LoadDraws}

SomeLoad == StateOf(<<"third", "third", "top", "third">>)

\* UUID._state after a call that read the clock as t and k more calls within that
\* millisecond that each advanced tick
MidRun(s, t, k) == [s EXCEPT !.timestamp = t, !.tick = k]

MidRunStates == {MidRun(s, ClockLowTop, k) : s \in LoadStates, k \in {9998, 9999}}

Observed ==
  /\ ret = Null
  /\ op = "load"
  /\ prev = Null
  /\ last1 = Null
  /\ first = Null
  /\ calls = 0
  /\ spent = 0

\* the generators from the script's load or from the middle of a burst of calls,
\* any clock and any draws, MaxCalls calls
Init ==
  /\ st \in LoadStates \cup MidRunStates
  /\ arg = Null
  /\ Observed

GenV1Step ==
  \E now \in Clocks, d \in Draws :
    /\ calls < MaxCalls
    /\ GenV1(now, d)
    /\ calls' = calls + 1
    /\ UNCHANGED spent

GenV4Step ==
  \E ds \in V4Draws :
    /\ calls < MaxCalls
    /\ GenV4(ds)
    /\ calls' = calls + 1
    /\ UNCHANGED spent

Next == GenV1Step \/ GenV4Step

Spec == Init /\ [][Next]_vars

\* genV1 called over and over from the script's load within one millisecond: tick
\* runs to its limit, while at most MaxSpent calls do anything else than advance it
InitBurst ==
  /\ st = SomeLoad
  /\ arg = Null
  /\ Observed

Cost(now, d) == IF Advance(st, now, d).tick = st.tick + 1 THEN 0 ELSE 1

BurstStep ==
  \E now \in BurstClocks, d \in BurstDraws :
    /\ spent + Cost(now, d) <= MaxSpent
    /\ GenV1(now, d)
    /\ spent' = spent + Cost(now, d)
    /\ UNCHANGED calls

SpecBurst == InitBurst /\ [][BurstStep]_vars

\* genV1 called within one millisecond, tick never advancing: sequence runs
\* through all its values
WrapStep ==
  \E now \in WrapClocks, d \in WrapDraws : GenV1(now, d) /\ UNCHANGED <<calls, spent>>

SpecWrap == InitBurst /\ [][WrapStep]_vars

\* the value type, the parser and genV4 as functions: one input, one call
ValueInputs ==
  {[f |-> "parse", x |-> s] : s \in ParseInputs}
    \cup {[f |-> "init", x |-> a] : a \in ArgVectors}
    \cup {[f |-> "genV4", x |-> ds] : ds \in AllV4Draws}

InitValue ==
  /\ st = SomeLoad
  /\ arg \in ValueInputs
  /\ Observed

ParseStep == op = "load" /\ arg.f = "parse" /\ Parse(arg.x) /\ UNCHANGED <<calls, spent>>

ConstructStep == op = "load" /\ arg.f = "init" /\ Construct(arg.x) /\ UNCHANGED <<calls, spent>>

GenV4Value == op = "load" /\ arg.f = "genV4" /\ GenV4(arg.x) /\ UNCHANGED <<calls, spent>>

NextValue == ParseStep \/ ConstructStep \/ GenV4Value

SpecValue == InitValue /\ [][NextValue]_vars

\* ------------------------------------------------------------ claims

Generated == op \in {"genV1", "genV4"}

\* x fits w bits
Fits(x, w) == x = LowBits(x, w)

\* C1: every UUID genV4 or genV1 returns is read back by parse from its string:
\* parse(u.toString()) is not null and equals u
C1_RoundTrip ==
  Generated =>
    LET p == UUIDParse(ToString(ret)) IN p # Null /\ Equals(p, ret)

\* C2: every UUID genV4, genV1 or parse returns has each of its six integer
\* fields inside its declared width
C2_WidthInvariant ==
  (op \in {"genV1", "genV4", "parse"} /\ ret # Null) =>
    \A i \in 1..6 : Fits(ret.intFields[i], sizes[i])

\* C3: the initializer stores each argument truncated to the width of its field,
\* so the hex fields have 8, 4, 4, 2, 2 and 12 digits and the bit string 128
C3_InitMasks ==
  op = "init" =>
    /\ \A i \in 1..6 :
         /\ ret.intFields[i] = LowBits(IF i <= Len(arg) THEN arg[i] ELSE Zero, sizes[i])
         /\ Len(ret.hexFields[i]) = sizes[i] \div 4
    /\ Len(ret.bitString) = 128

\* the top two bits of an 8-bit clockSeqHiAndReserved are 10
VariantTagged(u) == BigToNat(u.intFields[4]) \div 64 = 2 /\ Fits(u.intFields[4], 8)

\* C4: every UUID genV4 returns has version 4, every UUID genV1 returns has
\* version 1, and both carry the variant bits 10
C4_Tagged ==
  /\ op = "genV4" => ret.version = 4 /\ VariantTagged(ret)
  /\ op = "genV1" => ret.version = 1 /\ VariantTagged(ret)

C4_Witness ==
  /\ op = "genV4" /\ ret.version = 4
  /\ last1 # Null /\ last1.version = 1
  /\ st.sequence # SomeLoad.sequence

\* the last genV1 call read a clock earlier than the timestamp it found stored
Regressed == op = "genV1" /\ BigLess(arg, prev.st.timestamp)

ClockSeqOf(u) == <<u.intFields[4], u.intFields[5]>>

\* C5: a genV1 call that reads a clock earlier than the one before it leaves
\* sequence one higher modulo 2^14, stores the earlier reading and resets tick;
\* the clock sequence of its UUID differs from that of the call before
C5_Regression ==
  Regressed =>
    /\ st.sequence = (prev.st.sequence + 1) % 16384
    /\ st.timestamp = arg
    /\ st.tick = 0
    /\ prev.uuid # Null => ClockSeqOf(ret) # ClockSeqOf(prev.uuid)

C5_Witness == Regressed /\ prev.uuid # Null /\ st.sequence = 0

HexCharSet == {"0", "1", "2", "3", "4", "5", "6", "7", "8", "9",
               "a", "b", "c", "d", "e", "f", "A", "B", "C", "D", "E", "F"}

\* the canonical shape, position by position
Canonical(str) ==
  /\ Len(str) = 36
  /\ \A i \in 1..36 : IF i \in {9, 14, 19, 24} THEN str[i] = "-" ELSE str[i] \in HexCharSet

\* C6: parse returns a UUID exactly for the strings of the canonical shape and
\* null for every other string
C6_ParseAccepts ==
  op = "parse" => (ret # Null <=> Canonical(arg))

C6_Witness == op = "parse" /\ ret = Null /\ Len(arg) = 37 /\ Canonical(SubSeq(arg, 1, 36))

LowerOf(c) ==
  CASE c = "A" -> "a" [] c = "B" -> "b" [] c = "C" -> "c"
    [] c = "D" -> "d" [] c = "E" -> "e" [] c = "F" -> "f" [] OTHER -> c

\* the value of the hex digits str[from..to], digit by digit
HexValue(str, from, to) == ParseFrom(SubSeq(str, from, to), 16, to - from + 1)

\* C7: parse decodes the hex groups into the six fields in order, the fourth
\* group as two 8-bit fields; version is the first digit of the third group;
\* toString gives the input back in lower case
C7_ParseDecodes ==
  (op = "parse" /\ ret # Null) =>
    /\ ret.intFields[1] = HexValue(arg, 1, 8)
    /\ ret.intFields[2] = HexValue(arg, 10, 13)
    /\ ret.intFields[3] = HexValue(arg, 15, 18)
    /\ ret.intFields[4] = HexValue(arg, 20, 21)
    /\ ret.intFields[5] = HexValue(arg, 22, 23)
    /\ ret.intFields[6] = HexValue(arg, 25, 36)
    /\ ret.version = CharValue(arg[15], 16)
    /\ ToString(ret) = [i \in 1..Len(arg) |-> LowerOf(arg[i])]

C7_Witness ==
  /\ op = "parse" /\ arg = MixedCase /\ ret # Null
  /\ ret.intFields[4] = BigOf(171) /\ ret.intFields[5] = BigOf(205)
  /\ ToString(ret) # arg

\* the last genV1 call read the clock it found stored
SameMillisecond == op = "genV1" /\ arg = prev.st.timestamp

TickAdvanced == st.tick = prev.st.tick + 1 /\ st.sequence = prev.st.sequence

SequenceAdvanced ==
  st.sequence = (prev.st.sequence + 1) % 16384 /\ st.tick = prev.st.tick

\* C8: a genV1 call within the stored millisecond advances exactly one of tick
\* and sequence, tick only from below 9999; a call in another millisecond resets
\* tick; tick stays within 0..9999 and sequence within 14 bits
C8_TickOrSequence ==
  /\ SameMillisecond =>
       /\ TickAdvanced # SequenceAdvanced
       /\ TickAdvanced => prev.st.tick < 9999
  /\ (op = "genV1" /\ arg # prev.st.timestamp) => st.tick = 0
  /\ st.tick \in 0..9999
  /\ st.sequence \in 0..16383

C8_Witness ==
  /\ SameMillisecond /\ prev.st.tick = 9999 /\ SequenceAdvanced
  /\ prev.uuid # Null /\ st.sequence = 0

\* the count of 100 ns intervals from 1582-10-15 to the stored timestamp
Intervals == BigMulSmall(BigAdd(st.timestamp, GregorianOffset), 10000)

\* C9: the three time groups reassemble the count N of 100 ns intervals, when
\* N < 2^60: timeLow is N mod 2^32 plus tick, timeMid is (N div 2^32) mod 2^16,
\* the low 12 bits of timeHiAndVersion are (N div 2^48) mod 2^12
C9_TimeFields ==
  (op = "genV1" /\ Fits(Intervals, 60)) =>
    /\ ret.intFields[1] = BigAdd(LowBits(Intervals, 32), BigOf(st.tick))
    /\ ret.intFields[2] = LowBits(DropLimbs(Intervals, 2), 16)
    /\ LowBits(ret.intFields[3], 12) = LowBits(DropLimbs(Intervals, 3), 12)

\* C10: no genV1 call returns the UUID an earlier genV1 call returned, and
\* every one carries the node of the state
C10_Unique ==
  (op = "genV1" /\ prev.uuid # Null) =>
    /\ ~Equals(ret, first)
    /\ ret.intFields[6] = st.node

====
